---- MODULE Spec2Model ----
(***************************************************************************)
(* Model of the recommendation engine of 20Omni/simple-recommendation:     *)
(* recommend_for_user (src/app.py:62-95, src/dashboard.py:53-78), the      *)
(* reason loop of the Recommendations tab (src/app.py:568-582), the        *)
(* rendering of a reason by format_reason (src/app.py:285-318), the user   *)
(* store (src/app.py:19-49) and the pages of one session                   *)
(* (src/app.py:391-397, 415-478, 519-525, 589-603).                        *)
(*                                                                         *)
(* Specifications.  Spec: one call and its reason loop.  SpecHist: a       *)
(* session calling again and again.  SpecReasons: the reason loop over a   *)
(* catalog of five titles.  SpecDashboard: the call of src/dashboard.py.   *)
(* SpecText: a reason composed and rendered.  SpecStore: two sessions      *)
(* calling the store at the same time.  SpecSession: one browser session.  *)
(*                                                                         *)
(* Numbers.  The code computes in float64.  The model computes the same    *)
(* sums exactly, in integer multiples of 1/ScoreUnit: a similarity s is    *)
(* held as 10*s, a weight w as 10*w, and the mean over k duplicate rows is *)
(* exact because MeanDen is a multiple of every k <= NRows.                *)
(*                                                                         *)
(* Text.  A genre label and a genre tag are sequences of one-letter        *)
(* strings, so that the case-insensitive substring test of the code is     *)
(* computed, letter by letter.                                             *)
(***************************************************************************)
EXTENDS Integers, Sequences, FiniteSets, TLC

VARIABLES
    df,               \* the catalog: a sequence of rows (src/app.py:54)
    cosine_sim,       \* the similarity table, by row position (src/app.py:55)
    indices,          \* the title index: title -> set of row positions (src/app.py:56)
    argsortTie,       \* the order in which this build's np.argsort leaves equal keys
    preferred_genres, \* argument of the call
    watched_titles,   \* argument of the call
    top_n,            \* argument of the call
    scores,           \* the score accumulator of the call (src/app.py:63)
    recs,             \* the returned frame, as the sequence of its row positions
    reason_map,       \* title -> reason, built by the Recommendations tab
    raised,           \* TRUE when the reason loop stopped with an exception
    genre_weight,     \* the weights the call chose (src/app.py:64-66), times 10
    watch_weight,
    todo,             \* the calls a session is still to make, as argument triples
    log,              \* the calls made so far: arguments and returned rows
    pc,
    row_reasons,      \* the `reasons` of each pass of the reason loop, row after row
    watched_reasons,  \* the titles one reason text is composed from, as texts
    genre_matches,    \* the genres one reason text is composed from, as texts
    reason,           \* a reason text as the tab stores it (src/app.py:582)
    bullets,          \* what format_reason renders of it (src/app.py:285-318)
    user_data_file,   \* the content of user_data.json: username -> record
    sessions,         \* concurrent store calls: their arguments, local data, position
    st,               \* st.session_state of the one browser session
    clicked           \* history: the <<username, title>> pairs of 'Watch Now' clicks

vars == <<df, cosine_sim, indices, argsortTie, preferred_genres, watched_titles,
          top_n, scores, recs, reason_map, raised, genre_weight, watch_weight,
          todo, log, pc, row_reasons, watched_reasons, genre_matches, reason,
          bullets, user_data_file, sessions, st, clicked>>

env == <<df, cosine_sim, indices, argsortTie>>
args == <<preferred_genres, watched_titles, top_n>>
textVars == <<watched_reasons, genre_matches, reason, bullets>>
storeVars == <<user_data_file, sessions, st, clicked>>
engineVars == <<env, args, scores, recs, reason_map, raised, genre_weight,
                watch_weight, todo, log, row_reasons>>

-----------------------------------------------------------------------------
(* Bounds of the model *)

NRows == 5
MaxWatched == 3
MaxGenres == 2
MaxTopN == 3
MaxNegTopN == 1
MaxClicks == 2

(* Program constants *)

DefaultTopN == 10
ReasonThreshold == 1
HeadSignup == 3
MaxReasons == 3

-----------------------------------------------------------------------------
(* Small helpers *)

Min(a, b) == IF a < b THEN a ELSE b
Max(a, b) == IF a > b THEN a ELSE b

Range(s) == {s[i] : i \in DOMAIN s}

\* The elements of a finite set of integers, in increasing order.
Ascending(S) ==
    [k \in 1..Cardinality(S) |->
        CHOOSE x \in S : Cardinality({y \in S : y < x}) = k - 1]

\* The sequences over S without repetition, of length at most n.
InjSeqs(S, n) ==
    UNION {{s \in [1..k -> S] : \A i, j \in 1..k : i # j => s[i] # s[j]} : k \in 0..n}

RECURSIVE Gcd(_, _)
Gcd(a, b) == IF b = 0 THEN a ELSE Gcd(b, a % b)

RECURSIVE LcmUpTo(_)
LcmUpTo(n) == IF n <= 1 THEN 1 ELSE LET l == LcmUpTo(n - 1) IN (l * n) \div Gcd(l, n)

\* Every duplicate count k <= NRows divides MeanDen.
MeanDen == LcmUpTo(NRows)

\* One unit of score is 1/ScoreUnit: weights in tenths times similarities in
\* tenths, times MeanDen for the exact mean.
ScoreUnit == 10 * 10 * MeanDen

-----------------------------------------------------------------------------
(* The static resources the program is started with *)

Titles == {"A", "B", "C", "D", "U"}

GenreTags == {<<"a">>, <<"D">>}

\* Rows the catalogs are made of.  Rows 1 and 2 are the same row twice; row 3
\* shares their title and differs in the other columns; no row is titled "U".
Pool == <<
    [Series_Title |-> "A", Genre |-> <<"A">>,           Released_Year |-> 1990],
    [Series_Title |-> "A", Genre |-> <<"A">>,           Released_Year |-> 1990],
    [Series_Title |-> "A", Genre |-> <<"C">>,           Released_Year |-> 2000],
    [Series_Title |-> "B", Genre |-> <<"A", ",", "D">>, Released_Year |-> 1990],
    [Series_Title |-> "C", Genre |-> <<"d">>,           Released_Year |-> 1990],
    [Series_Title |-> "D", Genre |-> <<"C">>,           Released_Year |-> 1990],
    [Series_Title |-> "B", Genre |-> <<"C">>,           Released_Year |-> 2000] >>

\* Pairwise cosine similarity of the rows of Pool, times 10: symmetric, 1.0 on
\* the diagonal, identical rows identical.
PoolSim == <<
    << 10,  10, -10,   5,   0, -10,   3>>,
    << 10,  10, -10,   5,   0, -10,   3>>,
    <<-10, -10,  10,   1,   2,  10,   8>>,
    <<  5,   5,   1,  10,   5,   1,  -2>>,
    <<  0,   0,   2,   5,  10,   2,   0>>,
    <<-10, -10,  10,   1,   2,  10,   8>>,
    <<  3,   3,   8,  -2,   0,   8,  10>> >>

\* A catalog of NRows rows: the rows of Pool at the positions of S, in order.
Selections == {S \in SUBSET (1..Len(Pool)) : Cardinality(S) = NRows}

\* pd.Series(df.index, index=df['Series_Title']) with the entry of `gap` lost:
\* a title maps to the positions of the rows that carry it.
IndexOf(cat, gap) ==
    [t \in Titles |->
        IF t = gap THEN {} ELSE {p \in DOMAIN cat : cat[p].Series_Title = t}]

NoGap == "-"
IndexGaps == {NoGap, "A"}

\* np.argsort is not stable: a build orders equal keys as they stand
\* (insertion sort) or otherwise; the rank argsortTie[p] says where row p
\* comes among rows of equal score.
TieOrders ==
    { [p \in 1..NRows |-> p],
      [p \in 1..NRows |-> (p % NRows) + 1] }

TopNs == ((0 - MaxNegTopN)..MaxTopN) \cup {DefaultTopN}

\* The watch histories and the preference lists a call is made with.
WatchedLists == InjSeqs(Titles, MaxWatched)
GenreLists == InjSeqs(GenreTags, MaxGenres)

-----------------------------------------------------------------------------
(* Genre matching *)

Lower(c) ==
    CASE c = "A" -> "a"
      [] c = "C" -> "c"
      [] c = "D" -> "d"
      [] OTHER   -> c

\* Series.str.contains(pat, case=False, na=False) on one label, for a pattern
\* of plain letters; also `g.lower() in label.lower()`.
Contains(label, pat) ==
    \E i \in 0..(Len(label) - Len(pat)) :
        \A j \in 1..Len(pat) : Lower(label[i + j]) = Lower(pat[j])

\* str.contains('|'.join(preferred_genres), case=False, na=False)
ContainsAny(label, prefs) ==
    \E i \in DOMAIN prefs : Contains(label, prefs[i])

-----------------------------------------------------------------------------
(* recommend_for_user *)

\* The accumulator kept from one call to the next instead of being made anew.
StaleScores == scores

\* np.zeros(len(df))
ZeroScores == [p \in DOMAIN df |-> 0]

\* The deepest tier entered one title late.
WeightsLate(watched) ==
    IF Len(watched) > 3 THEN [genre_weight |-> 3, watch_weight |-> 40]
    ELSE IF Len(watched) > 0 THEN [genre_weight |-> 5, watch_weight |-> 35]
    ELSE [genre_weight |-> 20, watch_weight |-> 0]

\* The middle tier left out.
WeightsTwoTier(watched) ==
    IF Len(watched) > 0 THEN [genre_weight |-> 3, watch_weight |-> 40]
    ELSE [genre_weight |-> 20, watch_weight |-> 0]

\* The adaptive weights, times 10.
Weights(watched) ==
    IF Len(watched) >= 3 THEN [genre_weight |-> 3, watch_weight |-> 40]
    ELSE IF Len(watched) > 0 THEN [genre_weight |-> 5, watch_weight |-> 35]
    ELSE [genre_weight |-> 20, watch_weight |-> 0]

\* for genre in preferred_genres: scores[mask] += genre_weight
RECURSIVE GenrePass(_, _, _)
GenrePass(sc, prefs, gw) ==
    IF prefs = <<>> THEN sc
    ELSE GenrePass(
            [p \in DOMAIN sc |->
                IF Contains(df[p].Genre, Head(prefs))
                THEN sc[p] + gw * 10 * MeanDen
                ELSE sc[p]],
            Tail(prefs), gw)

RECURSIVE SumSim(_, _)
SumSim(idx, p) ==
    IF idx = {} THEN 0
    ELSE LET a == CHOOSE a \in idx : TRUE
         IN  cosine_sim[a][p] + SumSim(idx \ {a}, p)

\* cosine_sim[idx].mean(axis=0) for a title with several rows, cosine_sim[idx]
\* for a title with one; in units of 1/(10*MeanDen).
SimVec(idx) ==
    IF Cardinality(idx) > 1
    THEN [p \in DOMAIN df |-> SumSim(idx, p) * (MeanDen \div Cardinality(idx))]
    ELSE LET a == CHOOSE a \in idx : TRUE
         IN  [p \in DOMAIN df |-> cosine_sim[a][p] * MeanDen]

\* The similarity pass without its `if title in indices`: a title the index
\* does not hold is looked up as the first row.
RECURSIVE SimilarityPassUnchecked(_, _, _)
SimilarityPassUnchecked(sc, watched, ww) ==
    IF watched = <<>> THEN sc
    ELSE LET idx == IF indices[Head(watched)] # {} THEN indices[Head(watched)] ELSE {1}
             v   == SimVec(idx)
         IN  SimilarityPassUnchecked([p \in DOMAIN sc |-> sc[p] + ww * v[p]],
                                     Tail(watched), ww)

\* for title in watched_titles: if title in indices: scores += watch_weight * sim_vec
RECURSIVE SimilarityPass(_, _, _)
SimilarityPass(sc, watched, ww) ==
    IF watched = <<>> THEN sc
    ELSE LET idx == indices[Head(watched)]
             nxt == IF idx # {}
                    THEN LET v == SimVec(idx)
                         IN  [p \in DOMAIN sc |-> sc[p] + ww * v[p]]
                    ELSE sc
         IN  SimilarityPass(nxt, Tail(watched), ww)

\* watched_idx: the positions of every watched title the index resolves
WatchedIdx(watched) == UNION {indices[t] : t \in Range(watched)}

Sentinel == (0 - 99999) * ScoreUnit

\* if watched_idx: scores[watched_idx] = -99999
Exclude(sc, watched) ==
    [p \in DOMAIN sc |-> IF p \in WatchedIdx(watched) THEN Sentinel ELSE sc[p]]

\* np.argsort(scores): ascending by score, equal scores as the build leaves them
Argsort(sc) ==
    [k \in DOMAIN sc |->
        CHOOSE p \in DOMAIN sc :
            Cardinality({q \in DOMAIN sc :
                \/ sc[q] < sc[p]
                \/ sc[q] = sc[p] /\ argsortTie[q] < argsortTie[p]}) = k - 1]

\* [::-1]
Reversed(s) == [k \in DOMAIN s |-> s[Len(s) + 1 - k]]

\* The ranking without its [::-1].
RankedAscending(sc) == Argsort(sc)

\* The ranking written np.argsort(-scores): descending, equal scores as
\* argsort leaves them.
RankedByNegation(sc) == Argsort([p \in DOMAIN sc |-> 0 - sc[p]])

\* df.iloc[np.argsort(scores)[::-1]]
Ranked(sc) == Reversed(Argsort(sc))

\* The ranking left to the sentinel alone, without the filter by title.
NotWatchedUnfiltered(seq, watched) == seq

\* rec_df[~rec_df['Series_Title'].isin(watched_titles)]
NotWatched(seq, watched) ==
    SelectSeq(seq, LAMBDA p : df[p].Series_Title \notin Range(watched))

\* No row put in front.
SignupDfEmpty(seq, prefs) == <<>>

\* the rows of rec_df that match any preferred genre; none without preferences
SignupDf(seq, prefs) ==
    IF prefs # <<>>
    THEN SelectSeq(seq, LAMBDA p : ContainsAny(df[p].Genre, prefs))
    ELSE <<>>

\* DataFrame.head(n): the first n rows; for n < 0 all but the last -n rows
HeadDf(seq, n) ==
    IF n >= 0 THEN SubSeq(seq, 1, Min(n, Len(seq)))
    ELSE SubSeq(seq, 1, Max(Len(seq) + n, 0))

\* The concatenation left as it is.
KeepDuplicates(seq) == seq

\* DataFrame.drop_duplicates(): a row is dropped when an earlier row of the
\* frame is equal to it in every column
DropDuplicates(seq) ==
    LET keep == {k \in DOMAIN seq : \A j \in 1..(k - 1) : df[seq[j]] # df[seq[k]]}
        ks   == Ascending(keep)
    IN  [i \in DOMAIN ks |-> seq[ks[i]]]

\* The scores after the genre pass, the similarity pass and the exclusion.
FinalScores(prefs, watched) ==
    LET w  == Weights(watched)
        s1 == GenrePass(ZeroScores, prefs, w.genre_weight)
        s2 == SimilarityPass(s1, watched, w.watch_weight)
    IN  Exclude(s2, watched)

\* The rows returned for given final scores.
Returned(sc, prefs, watched, n) ==
    LET rec_df    == NotWatched(Ranked(sc), watched)
        signup_df == SignupDf(rec_df, prefs)
    IN  HeadDf(DropDuplicates(HeadDf(signup_df, HeadSignup) \o rec_df), n)

recommend_for_user(prefs, watched, n) ==
    LET sc == FinalScores(prefs, watched)
    IN  [scores |-> sc,
         recs |-> Returned(sc, prefs, watched, n),
         genre_weight |-> Weights(watched).genre_weight,
         watch_weight |-> Weights(watched).watch_weight]

-----------------------------------------------------------------------------
(* The reason loop of the Recommendations tab *)

None == [none |-> TRUE]

\* cosine_sim[indices[w]][idx] > 0.1 cannot be evaluated when indices[w] is a
\* Series of several positions: the subscript selects a whole row of the
\* stacked rows, or is out of range, and the `if` raises.
ReasonRaises(rs, watched) ==
    /\ rs # <<>>
    /\ \E i \in DOMAIN watched : Cardinality(indices[watched[i]]) > 1

\* The comparison with the threshold made >= instead of >.
WatchedReasonsAtLeast(p, watched) ==
    SelectSeq(watched,
        LAMBDA w : /\ indices[w] # {}
                   /\ \A a \in indices[w] : cosine_sim[a][p] >= ReasonThreshold)

\* [w for w in watched if w in indices and cosine_sim[indices[w]][idx] > 0.1]
WatchedReasons(p, watched) ==
    SelectSeq(watched,
        LAMBDA w : /\ indices[w] # {}
                   /\ \A a \in indices[w] : cosine_sim[a][p] > ReasonThreshold)

\* [g for g in genres if g.lower() in row["Genre"].lower()][:3]
GenreMatches(p, prefs) ==
    HeadDf(SelectSeq(prefs, LAMBDA g : Contains(df[p].Genre, g)), MaxReasons)

\* " and ".join(reasons) if reasons else None, the text kept as its parts
ReasonOf(p, prefs, watched) ==
    LET wr == WatchedReasons(p, watched)
        gm == GenreMatches(p, prefs)
        reasons ==
            (IF wr # <<>> THEN <<[kind |-> "watched", items |-> HeadDf(wr, MaxReasons)]>>
             ELSE <<>>)
            \o (IF gm # <<>> THEN <<[kind |-> "genres", items |-> gm]>> ELSE <<>>)
    IN  IF reasons # <<>> THEN [none |-> FALSE, parts |-> reasons] ELSE None

\* reason_map[row['Series_Title']] = ..., row after row
RECURSIVE BuildReasonMap(_, _, _, _)
BuildReasonMap(m, rs, prefs, watched) ==
    IF rs = <<>> THEN m
    ELSE LET t == df[Head(rs)].Series_Title
             r == ReasonOf(Head(rs), prefs, watched)
         IN  BuildReasonMap(
                [x \in (DOMAIN m) \cup {t} |-> IF x = t THEN r ELSE m[x]],
                Tail(rs), prefs, watched)

EmptyMap == [x \in {} |-> None]

\* the list `reasons` of each pass of the loop, in the order of the rows
RowReasons(rs, prefs, watched) ==
    [k \in DOMAIN rs |-> ReasonOf(rs[k], prefs, watched)]

-----------------------------------------------------------------------------
(* Reason texts: a text is a sequence of one-character strings *)

YouWatched == <<"Y","o","u"," ","w","a","t","c","h","e","d"," ">>
YouSelected ==
    <<"Y","o","u"," ","s","e","l","e","c","t","e","d"," ",
      "g","e","n","r","e","(","s",")"," ">>
AndSep == <<" ","a","n","d"," ">>
CommaSep == <<","," ">>
Comma == <<",">>

\* The titles and genres the texts are composed from: a plain title, a title
\* with a comma, a title with " and " in it, one more plain title.
TextTitles ==
    { <<"U","p">>,
      <<"H","e","r">>,
      <<"I",","," ","X">>,
      <<"M"," ","a","n","d"," ","N">> }
TextGenres == { <<"W","a","r">>, <<"S","c","i","-","F","i">> }

\* sub occurs in s from position i on
StartsAt(s, sub, i) ==
    /\ i + Len(sub) - 1 <= Len(s)
    /\ \A j \in 1..Len(sub) : s[i + j - 1] = sub[j]

\* str.find, counted from 1; 0 when sub does not occur
Find(s, sub) ==
    LET at == {i \in 1..Len(s) : StartsAt(s, sub, i)}
    IN  IF at = {} THEN 0 ELSE CHOOSE i \in at : \A k \in at : i <= k

\* sub in s
In(sub, s) == Find(s, sub) # 0

\* s.split(sep, 1)
SplitOnce(s, sep) ==
    LET i == Find(s, sep)
    IN  IF i = 0 THEN <<s>>
        ELSE <<SubSeq(s, 1, i - 1), SubSeq(s, i + Len(sep), Len(s))>>

\* s.split(sep)
RECURSIVE SplitAll(_, _)
SplitAll(s, sep) ==
    LET i == Find(s, sep)
    IN  IF i = 0 THEN <<s>>
        ELSE <<SubSeq(s, 1, i - 1)>> \o SplitAll(SubSeq(s, i + Len(sep), Len(s)), sep)

\* s.strip()
RECURSIVE Strip(_)
Strip(s) ==
    IF s = <<>> THEN s
    ELSE IF Head(s) = " " THEN Strip(Tail(s))
    ELSE IF s[Len(s)] = " " THEN Strip(SubSeq(s, 1, Len(s) - 1))
    ELSE s

\* sep.join(parts)
RECURSIVE Join(_, _)
Join(parts, sep) ==
    IF parts = <<>> THEN <<>>
    ELSE IF Len(parts) = 1 THEN parts[1]
    ELSE parts[1] \o sep \o Join(Tail(parts), sep)

\* [m.strip() for m in text.split(",") if m.strip()]
Items(text) ==
    LET stripped == [i \in DOMAIN SplitAll(text, Comma) |-> Strip(SplitAll(text, Comma)[i])]
    IN  SelectSeq(stripped, LAMBDA m : m # <<>>)

Text(t) == [none |-> FALSE, text |-> t]

\* " and ".join(reasons) if reasons else None, for the reasons made of the
\* watched_reasons W and the genre_matches G of one row
ComposeReason(W, G) ==
    LET reasons ==
            (IF W # <<>> THEN <<YouWatched \o Join(HeadDf(W, MaxReasons), CommaSep)>>
             ELSE <<>>)
            \o (IF G # <<>> THEN <<YouSelected \o Join(G, CommaSep)>> ELSE <<>>)
    IN  IF reasons # <<>> THEN Text(Join(reasons, AndSep)) ELSE None

NoBullets == [watched_movies |-> <<>>, genres |-> <<>>]

\* format_reason(reason): the bullets of the rendered block, titles first; no
\* bullet at all where it returns "".
format_reason(r) ==
    IF r = None \/ r.text = <<>> THEN NoBullets
    ELSE LET t == r.text
             watched_movies ==
                IF In(SubSeq(YouWatched, 1, Len(YouWatched) - 1), t)
                   /\ Len(SplitOnce(t, YouWatched)) > 1
                THEN LET after == SplitOnce(t, YouWatched)[2]
                         watched_text ==
                            IF In(AndSep, after) THEN SplitOnce(after, AndSep)[1]
                            ELSE after
                     IN  Items(watched_text)
                ELSE <<>>
             genres ==
                IF In(SubSeq(YouSelected, 1, Len(YouSelected) - 1), t)
                   /\ Len(SplitOnce(t, YouSelected)) > 1
                THEN Items(SplitOnce(t, YouSelected)[2])
                ELSE <<>>
         IN  [watched_movies |-> watched_movies, genres |-> genres]

-----------------------------------------------------------------------------
(* The user store *)

Usernames == {"u1", "u2"}

EmptyFile == [u \in {} |-> [genres |-> <<>>, watched |-> <<>>]]

\* {"genres": [], "watched": []}
NewUser == [genres |-> <<>>, watched |-> <<>>]

\* data[username] = {"genres": [], "watched": []}
WithUser(data, u) ==
    [x \in (DOMAIN data) \cup {u} |-> IF x = u THEN NewUser ELSE data[x]]

\* data[username]['genres'] = genres
WithGenres(data, u, g) == [data EXCEPT ![u].genres = g]

\* data[username]['watched'] = watched_list
WithWatched(data, u, w) == [data EXCEPT ![u].watched = w]

\* What one whole call of signup_user, update_user_genres or update_watched
\* saves, from the data it loaded; the data as loaded where it saves nothing.
Saved(call, data) ==
    CASE call.op = "signup_user" ->
            IF call.username \in DOMAIN data THEN data ELSE WithUser(data, call.username)
      [] call.op = "update_user_genres" ->
            IF call.username \in DOMAIN data
            THEN WithGenres(data, call.username, call.arg) ELSE data
      [] call.op = "update_watched" ->
            IF call.username \in DOMAIN data
            THEN WithWatched(data, call.username, call.arg) ELSE data

\* Whether the call reaches its save_user_data.
Saves(call, data) ==
    IF call.op = "signup_user" THEN call.username \notin DOMAIN data
    ELSE call.username \in DOMAIN data

\* The watch history of the stored record not taken over at login.
LoginWatchedEmpty(user) == <<>>

\* st.session_state.watched = user.get("watched", [])
LoginWatched(user) == user.watched

\* st.session_state as the routing code creates it (src/app.py:589-596)
LoggedOut == [page |-> "login_signup", username |-> "", genres |-> <<>>, watched |-> <<>>]

-----------------------------------------------------------------------------
(* The state machine *)

\* The resources load_model returns: a catalog, its similarity table, its
\* title index (possibly with the entry of one title lost), and the build.
InitEnv(gaps) ==
    /\ \E S \in Selections, gap \in gaps :
        LET sel == Ascending(S)
            cat == [k \in 1..NRows |-> Pool[sel[k]]]
        IN  /\ df = cat
            /\ cosine_sim = [i \in 1..NRows |-> [j \in 1..NRows |-> PoolSim[sel[i]][sel[j]]]]
            /\ indices = IndexOf(cat, gap)
    /\ argsortTie \in TieOrders

InitLocals ==
    /\ scores = [p \in 1..NRows |-> 0]
    /\ recs = <<>>
    /\ reason_map = EmptyMap
    /\ raised = FALSE
    /\ genre_weight = 0
    /\ watch_weight = 0
    /\ log = <<>>
    /\ row_reasons = <<>>

\* No reason text composed yet.
InitTextIdle ==
    /\ watched_reasons = <<>>
    /\ genre_matches = <<>>
    /\ reason = None
    /\ bullets = NoBullets

\* No user stored, no store call under way, nobody logged in.
InitStoreIdle ==
    /\ user_data_file = EmptyFile
    /\ sessions = <<>>
    /\ st = LoggedOut
    /\ clicked = <<>>

\* One call of recommend_for_user on arguments drawn from the bounded sets.
Init ==
    /\ InitEnv(IndexGaps)
    /\ preferred_genres \in GenreLists
    /\ watched_titles \in WatchedLists
    /\ top_n \in TopNs
    /\ todo = <<>>
    /\ InitLocals
    /\ InitTextIdle
    /\ InitStoreIdle
    /\ pc = "start"

\* One call recommend_for_user(preferred_genres, watched_titles, top_n).
CallRecommend ==
    /\ pc = "start"
    /\ LET r == recommend_for_user(preferred_genres, watched_titles, top_n)
       IN  /\ scores' = r.scores
           /\ recs' = r.recs
           /\ genre_weight' = r.genre_weight
           /\ watch_weight' = r.watch_weight
    /\ pc' = "returned"
    /\ UNCHANGED <<env, args, reason_map, raised, todo, log, row_reasons>>
    /\ UNCHANGED <<textVars, storeVars>>

\* The reason loop over the rows the tab got from its call with top_n = 10.
Tab3Reasons ==
    /\ pc = "returned"
    /\ top_n = DefaultTopN
    /\ IF ReasonRaises(recs, watched_titles)
       THEN raised' = TRUE /\ UNCHANGED <<reason_map, row_reasons>>
       ELSE /\ reason_map' = BuildReasonMap(EmptyMap, recs, preferred_genres, watched_titles)
            /\ row_reasons' = RowReasons(recs, preferred_genres, watched_titles)
            /\ raised' = FALSE
    /\ pc' = "explained"
    /\ UNCHANGED <<env, args, scores, recs, genre_weight, watch_weight, todo, log>>
    /\ UNCHANGED <<textVars, storeVars>>

Next == CallRecommend \/ Tab3Reasons

Spec == Init /\ [][Next]_vars

-----------------------------------------------------------------------------
(* A session that calls recommend_for_user again and again *)

MaxBetween == 1

\* The argument triples a session calls with.
HistArgs ==
    {<<g, w, n>> : g \in {<<>>, <<<<"a">>>>},
                   w \in {<<>>, <<"A">>, <<"D", "A">>},
                   n \in {HeadSignup - 1, DefaultTopN}}

SeqsUpTo(S, n) == UNION {[1..k -> S] : k \in 0..n}

\* A call, at most MaxBetween other calls, and the first call once more.
Scripts == {<<x>> \o b \o <<x>> : x \in HistArgs, b \in SeqsUpTo(HistArgs, MaxBetween)}

InitHist ==
    /\ InitEnv({NoGap})
    /\ preferred_genres = <<>>
    /\ watched_titles = <<>>
    /\ top_n = DefaultTopN
    /\ todo \in Scripts
    /\ InitLocals
    /\ InitTextIdle
    /\ InitStoreIdle
    /\ pc = "session"

\* The next call of the session: recommend_for_user(*Head(todo)).
Recall ==
    /\ todo # <<>>
    /\ LET a == Head(todo)
           r == recommend_for_user(a[1], a[2], a[3])
       IN  /\ preferred_genres' = a[1]
           /\ watched_titles' = a[2]
           /\ top_n' = a[3]
           /\ scores' = r.scores
           /\ recs' = r.recs
           /\ genre_weight' = r.genre_weight
           /\ watch_weight' = r.watch_weight
           /\ log' = Append(log, [args |-> a, recs |-> r.recs])
    /\ todo' = Tail(todo)
    /\ pc' = "returned"
    /\ UNCHANGED <<env, reason_map, raised, row_reasons>>
    /\ UNCHANGED <<textVars, storeVars>>

NextHist == Recall \/ Tab3Reasons

SpecHist == InitHist /\ [][NextHist]_vars

-----------------------------------------------------------------------------
(* The Recommendations tab over a catalog of five titles *)

\* A catalog whose rows all differ in title; the label of the last row holds
\* every tag of ReasonTags, one of them inside another.
ReasonCatalog == <<
    [Series_Title |-> "A", Genre |-> <<"A">>,                     Released_Year |-> 1990],
    [Series_Title |-> "B", Genre |-> <<"C">>,                     Released_Year |-> 1990],
    [Series_Title |-> "C", Genre |-> <<"d">>,                     Released_Year |-> 1990],
    [Series_Title |-> "D", Genre |-> <<"C">>,                     Released_Year |-> 2000],
    [Series_Title |-> "E", Genre |-> <<"A","A",",","D",",","C">>, Released_Year |-> 2000] >>

\* Its similarity table, times 10: symmetric, 1.0 on the diagonal; rows A and
\* B are similar by exactly 0.1.
ReasonSim == <<
    << 10,   1,   0,  -2,   2>>,
    <<  1,  10,   2,   8,   5>>,
    <<  0,   2,  10,   2,   4>>,
    << -2,   8,   2,  10,   3>>,
    <<  2,   5,   4,   3,  10>> >>

ReasonTags == {<<"a">>, <<"D">>, <<"a", "a">>, <<"c">>}

\* One list more than the loop shows: up to MaxReasons + 1 titles or tags.
ReasonWatchedLists == InjSeqs(Titles, MaxReasons + 1)
ReasonGenreLists == InjSeqs(ReasonTags, MaxReasons + 1)

InitReasons ==
    /\ df = ReasonCatalog
    /\ cosine_sim = ReasonSim
    /\ \E gap \in IndexGaps :
        indices = [t \in Titles \cup {"E"} |->
                    IF t = gap THEN {}
                    ELSE {p \in DOMAIN ReasonCatalog : ReasonCatalog[p].Series_Title = t}]
    /\ argsortTie \in TieOrders
    /\ preferred_genres \in ReasonGenreLists
    /\ watched_titles \in ReasonWatchedLists
    /\ top_n = DefaultTopN
    /\ todo = <<>>
    /\ InitLocals
    /\ InitTextIdle
    /\ InitStoreIdle
    /\ pc = "start"

SpecReasons == InitReasons /\ [][Next]_vars

-----------------------------------------------------------------------------
(* recommend_for_user of src/dashboard.py *)

SentinelDashboard == (0 - 1) * ScoreUnit

\* scores[watched_idx] = -1
ExcludeDashboard(sc, watched) ==
    [p \in DOMAIN sc |-> IF p \in WatchedIdx(watched) THEN SentinelDashboard ELSE sc[p]]

\* str.contains('|'.join(preferred_genres), case=False): the empty pattern of
\* an empty list occurs in every label
ContainsPattern(label, prefs) == prefs = <<>> \/ ContainsAny(label, prefs)

\* rec_df[rec_df['Genre'].str.contains('|'.join(preferred_genres), case=False)]
SignupDfDashboard(seq, prefs) ==
    SelectSeq(seq, LAMBDA p : ContainsPattern(df[p].Genre, prefs))

FinalScoresDashboard(prefs, watched) ==
    LET w  == Weights(watched)
        s1 == GenrePass(ZeroScores, prefs, w.genre_weight)
        s2 == SimilarityPass(s1, watched, w.watch_weight)
    IN  ExcludeDashboard(s2, watched)

ReturnedDashboard(sc, prefs, watched, n) ==
    LET rec_df    == NotWatched(Ranked(sc), watched)
        signup_df == SignupDfDashboard(rec_df, prefs)
    IN  HeadDf(DropDuplicates(HeadDf(signup_df, HeadSignup) \o rec_df), n)

recommend_for_user_dashboard(prefs, watched, n) ==
    LET sc == FinalScoresDashboard(prefs, watched)
    IN  [scores |-> sc,
         recs |-> ReturnedDashboard(sc, prefs, watched, n),
         genre_weight |-> Weights(watched).genre_weight,
         watch_weight |-> Weights(watched).watch_weight]

\* One call of the recommend_for_user of src/dashboard.py.
CallRecommendDashboard ==
    /\ pc = "start"
    /\ LET r == recommend_for_user_dashboard(preferred_genres, watched_titles, top_n)
       IN  /\ scores' = r.scores
           /\ recs' = r.recs
           /\ genre_weight' = r.genre_weight
           /\ watch_weight' = r.watch_weight
    /\ pc' = "returned_dashboard"
    /\ UNCHANGED <<env, args, reason_map, raised, todo, log, row_reasons>>
    /\ UNCHANGED <<textVars, storeVars>>

NextDashboard == CallRecommendDashboard

SpecDashboard == Init /\ [][NextDashboard]_vars

-----------------------------------------------------------------------------
(* The engine at rest, for the specifications that do not call it *)

\* The resources of one catalog, index and build.
InitEnvAt(S, gap, tie) ==
    LET sel == Ascending(S)
        cat == [k \in 1..NRows |-> Pool[sel[k]]]
    IN  /\ df = cat
        /\ cosine_sim = [i \in 1..NRows |-> [j \in 1..NRows |-> PoolSim[sel[i]][sel[j]]]]
        /\ indices = IndexOf(cat, gap)
        /\ argsortTie = tie

InitEngineIdle ==
    /\ InitEnvAt(1..NRows, NoGap, [p \in 1..NRows |-> p])
    /\ preferred_genres = <<>>
    /\ watched_titles = <<>>
    /\ top_n = DefaultTopN
    /\ todo = <<>>
    /\ InitLocals

-----------------------------------------------------------------------------
(* Composing a reason text and rendering it *)

\* watched_reasons may hold one title more than is shown; genre_matches is
\* already cut to MaxReasons.
TextWatchedLists == InjSeqs(TextTitles, MaxReasons + 1)
TextGenreLists == InjSeqs(TextGenres, MaxReasons)

InitText ==
    /\ InitEngineIdle
    /\ InitStoreIdle
    /\ watched_reasons \in TextWatchedLists
    /\ genre_matches \in TextGenreLists
    /\ reason = None
    /\ bullets = NoBullets
    /\ pc = "compose"

\* The tab composes the reason of a row (src/app.py:577-582).
ComposeText ==
    /\ pc = "compose"
    /\ reason' = ComposeReason(watched_reasons, genre_matches)
    /\ pc' = "composed"
    /\ UNCHANGED <<engineVars, storeVars, watched_reasons, genre_matches, bullets>>

\* The card renders it with format_reason (src/app.py:285-318).
FormatReason ==
    /\ pc = "composed"
    /\ bullets' = format_reason(reason)
    /\ pc' = "formatted"
    /\ UNCHANGED <<engineVars, storeVars, watched_reasons, genre_matches, reason>>

NextText == ComposeText \/ FormatReason

SpecText == InitText /\ [][NextText]_vars

-----------------------------------------------------------------------------
(* Two sessions calling the user store at the same time *)

StoreWatchedLists == InjSeqs({"A", "B"}, MaxWatched) \ {<<>>}
StoreGenreLists == GenreLists \ {<<>>}

\* The calls a session may make for its user.
StoreCalls(u) ==
    {[op |-> "signup_user", username |-> u, arg |-> <<>>]}
    \cup {[op |-> "update_user_genres", username |-> u, arg |-> g] : g \in StoreGenreLists}
    \cup {[op |-> "update_watched", username |-> u, arg |-> w] : w \in StoreWatchedLists}

\* The file before the calls: each user signed up or not.
InitialFiles == {[u \in U |-> NewUser] : U \in SUBSET Usernames}

InitStore ==
    /\ InitEngineIdle
    /\ InitTextIdle
    /\ user_data_file \in InitialFiles
    /\ sessions \in
        {<<[call |-> c1, data |-> EmptyFile, pc |-> "call"],
           [call |-> c2, data |-> EmptyFile, pc |-> "call"]>> :
            c1 \in StoreCalls("u1"), c2 \in StoreCalls("u2")}
    /\ st = LoggedOut
    /\ clicked = <<>>
    /\ pc = "store"

\* data = load_user_data(), the first step of each of the three calls
LoadUserData(s) ==
    /\ sessions[s].pc = "call"
    /\ sessions' = [sessions EXCEPT ![s].data = user_data_file, ![s].pc = "loaded"]
    /\ UNCHANGED <<engineVars, textVars, user_data_file, st, clicked, pc>>

\* The rest of the call: the change of the loaded data and save_user_data(data),
\* or the return without saving.
SaveUserData(s) ==
    /\ sessions[s].pc = "loaded"
    /\ IF Saves(sessions[s].call, sessions[s].data)
       THEN user_data_file' = Saved(sessions[s].call, sessions[s].data)
       ELSE UNCHANGED user_data_file
    /\ sessions' = [sessions EXCEPT ![s].pc = "done"]
    /\ UNCHANGED <<engineVars, textVars, st, clicked, pc>>

NextStore ==
    \/ \E s \in DOMAIN sessions : LoadUserData(s)
    \/ \E s \in DOMAIN sessions : SaveUserData(s)

SpecStore == InitStore /\ [][NextStore]_vars

-----------------------------------------------------------------------------
(* One browser session: signup, login, genre selection, Watch Now, logout *)

\* Catalogs in which some title is carried by two different rows.
SessionSelections == {S \in Selections : {3, 4, 5, 6} \subseteq S}

\* The genres picked on the genre selection page, in the order picked.
SessionGenreLists == InjSeqs({<<"A">>, <<"C">>}, MaxGenres) \ {<<>>}

InitSession ==
    /\ \E S \in SessionSelections, tie \in TieOrders : InitEnvAt(S, NoGap, tie)
    /\ preferred_genres = <<>>
    /\ watched_titles = <<>>
    /\ top_n = DefaultTopN
    /\ todo = <<>>
    /\ InitLocals
    /\ InitTextIdle
    /\ user_data_file = EmptyFile
    /\ sessions = <<>>
    /\ st = LoggedOut
    /\ clicked = <<>>
    /\ pc = "ui"

\* The Recommendations tab of the dashboard run on the session state s
\* (src/app.py:568-582).
RenderDashboard(s) ==
    LET r == recommend_for_user(s.genres, s.watched, DefaultTopN)
    IN  /\ preferred_genres' = s.genres
        /\ watched_titles' = s.watched
        /\ top_n' = DefaultTopN
        /\ scores' = r.scores
        /\ recs' = r.recs
        /\ genre_weight' = r.genre_weight
        /\ watch_weight' = r.watch_weight
        /\ IF ReasonRaises(r.recs, s.watched)
           THEN raised' = TRUE /\ reason_map' = EmptyMap /\ row_reasons' = <<>>
           ELSE /\ reason_map' = BuildReasonMap(EmptyMap, r.recs, s.genres, s.watched)
                /\ row_reasons' = RowReasons(r.recs, s.genres, s.watched)
                /\ raised' = FALSE

\* A page without recommendations.
RenderOther ==
    /\ preferred_genres' = <<>>
    /\ watched_titles' = <<>>
    /\ top_n' = DefaultTopN
    /\ scores' = ZeroScores
    /\ recs' = <<>>
    /\ genre_weight' = 0
    /\ watch_weight' = 0
    /\ reason_map' = EmptyMap
    /\ row_reasons' = <<>>
    /\ raised' = FALSE

\* The script run that follows every handler (st.rerun, src/app.py:598-603).
Render(s) == IF s.page = "dashboard" THEN RenderDashboard(s) ELSE RenderOther

\* Signup with a username and a password of 5 characters or more.
Signup(u) ==
    /\ st.page = "login_signup"
    /\ LET call == [op |-> "signup_user", username |-> u, arg |-> <<>>]
       IN  IF Saves(call, user_data_file)
           THEN /\ user_data_file' = Saved(call, user_data_file)
                /\ st' = [page |-> "genre_select", username |-> u,
                          genres |-> <<>>, watched |-> <<>>]
           ELSE UNCHANGED <<user_data_file, st>>
    /\ Render(st')
    /\ UNCHANGED <<env, todo, log, textVars, sessions, clicked, pc>>

\* Login with a username and a password.
Login(u) ==
    /\ st.page = "login_signup"
    /\ IF u \in DOMAIN user_data_file
       THEN LET user == user_data_file[u]
            IN  st' = [page |-> IF user.genres # <<>> THEN "dashboard" ELSE "genre_select",
                       username |-> u,
                       genres |-> user.genres,
                       watched |-> LoginWatched(user)]
       ELSE UNCHANGED st
    /\ Render(st')
    /\ UNCHANGED <<env, todo, log, textVars, user_data_file, sessions, clicked, pc>>

\* 'Next' on the genre selection page with the genres g selected.
GenreNext(g) ==
    /\ st.page = "genre_select"
    /\ user_data_file' =
        Saved([op |-> "update_user_genres", username |-> st.username, arg |-> g],
              user_data_file)
    /\ st' = [st EXCEPT !.genres = g, !.page = "dashboard"]
    /\ Render(st')
    /\ UNCHANGED <<env, todo, log, textVars, sessions, clicked, pc>>

\* 'Watch Now' on the card of title t, which the dashboard shows with the
\* button enabled (src/app.py:391-397).
WatchNow(t) ==
    /\ st.page = "dashboard"
    /\ Len(clicked) < MaxClicks
    /\ \E p \in DOMAIN df : df[p].Series_Title = t
    /\ t \notin Range(st.watched)
    /\ LET watched_list == Append(st.watched, t)
       IN  /\ user_data_file' =
                Saved([op |-> "update_watched", username |-> st.username,
                       arg |-> watched_list],
                      user_data_file)
           /\ st' = [st EXCEPT !.watched = watched_list]
    /\ clicked' = Append(clicked, <<st.username, t>>)
    /\ Render(st')
    /\ UNCHANGED <<env, todo, log, textVars, sessions, pc>>

\* 'Logout' in the sidebar of the dashboard.
Logout ==
    /\ st.page = "dashboard"
    /\ st' = LoggedOut
    /\ Render(st')
    /\ UNCHANGED <<env, todo, log, textVars, user_data_file, sessions, clicked, pc>>

NextSession ==
    \/ \E u \in Usernames : Signup(u)
    \/ \E u \in Usernames : Login(u)
    \/ \E g \in SessionGenreLists : GenreNext(g)
    \/ \E t \in Titles : WatchNow(t)
    \/ Logout

SpecSession == InitSession /\ [][NextSession]_vars

-----------------------------------------------------------------------------
(* Vocabulary of the properties *)

Called == pc \in {"returned", "explained"}

TitleOf(p) == df[p].Series_Title

InCatalog(t) == \E p \in DOMAIN df : TitleOf(p) = t

\* A title that is in neither the title index nor the catalog.
Unknown(t) == indices[t] = {} /\ ~InCatalog(t)

Matches(p) == ContainsAny(df[p].Genre, preferred_genres)

\* The number of entries of preferred_genres that occur in the label of row p.
MatchCount(p) ==
    Cardinality({i \in DOMAIN preferred_genres : Contains(df[p].Genre, preferred_genres[i])})

\* The rows that are not watched and match a preferred genre.
Candidates == {p \in DOMAIN df : TitleOf(p) \notin Range(watched_titles) /\ Matches(p)}

MatchingReturned == {k \in DOMAIN recs : Matches(recs[k])}

NoRepeatedRows == \A p, q \in DOMAIN df : p # q => df[p] # df[q]

StableArgsort == \A p \in DOMAIN df : argsortTie[p] = p

-----------------------------------------------------------------------------
(* C1 *)

\* C1: no returned record carries a title that is an element of
\* watched_titles, whatever the catalog, the title index and the arguments.
C1_Exclusion ==
    Called => \A k \in DOMAIN recs : TitleOf(recs[k]) \notin Range(watched_titles)

\* A call that returned rows although one watched title is in the catalog and
\* missing from the index, and another maps to several rows.
C1_Witness ==
    /\ pc = "returned"
    /\ recs # <<>>
    /\ \E i \in DOMAIN watched_titles :
        indices[watched_titles[i]] = {} /\ InCatalog(watched_titles[i])
    /\ \E i \in DOMAIN watched_titles : Cardinality(indices[watched_titles[i]]) > 1

-----------------------------------------------------------------------------
(* C2 *)

\* C2: the call returns at most top_n records when top_n >= 0 and no record
\* when top_n <= 0, negative top_n included.
C2_SizeInvariant ==
    Called =>
        /\ top_n >= 0 => Len(recs) <= top_n
        /\ top_n <= 0 => recs = <<>>

-----------------------------------------------------------------------------
(* C3 *)

\* C3 as stated: with preferences, top_n >= 3 and at least 3 rows that are not
\* watched and match a preferred genre, at least 3 returned records match a
\* preferred genre, also in a catalog with repeated rows.
C3_AnyCatalog ==
    (/\ Called
     /\ preferred_genres # <<>>
     /\ top_n >= 3
     /\ Cardinality(Candidates) >= 3)
    => Cardinality(MatchingReturned) >= 3

\* C3 amended: the same, in a catalog no two rows of which are equal in every
\* column.
C3_GenreRepresentation ==
    (/\ Called
     /\ NoRepeatedRows
     /\ preferred_genres # <<>>
     /\ top_n >= 3
     /\ Cardinality(Candidates) >= 3)
    => Cardinality(MatchingReturned) >= 3

\* Exactly three rows returned, all matching, although a row that matches no
\* preferred genre and is not watched scores higher than one of them.
C3_Witness ==
    /\ pc = "returned"
    /\ NoRepeatedRows
    /\ preferred_genres # <<>>
    /\ top_n = 3
    /\ Cardinality(Candidates) >= 3
    /\ Cardinality(MatchingReturned) = 3
    /\ WatchedIdx(watched_titles) # {}
    /\ \E q \in DOMAIN df, k \in DOMAIN recs :
        /\ ~Matches(q)
        /\ TitleOf(q) \notin Range(watched_titles)
        /\ scores[q] > scores[recs[k]]

-----------------------------------------------------------------------------
(* C4 *)

WeightTable(n) ==
    IF n = 0 THEN <<20, 0>> ELSE IF n <= 2 THEN <<5, 35>> ELSE <<3, 40>>

\* C4: the weights of a call depend on len(watched_titles) only: (2.0, 0.0)
\* for 0, (0.5, 3.5) for 1 or 2, (0.3, 4.0) from 3 on; so a longer list never
\* has a larger genre_weight nor a smaller watch_weight.
C4_Weights ==
    Called =>
        /\ <<genre_weight, watch_weight>> = WeightTable(Len(watched_titles))
        /\ \A v \in WatchedLists :
            LET w == Weights(v)
            IN  /\ Len(v) = Len(watched_titles) =>
                    w.genre_weight = genre_weight /\ w.watch_weight = watch_weight
                /\ Len(v) >= Len(watched_titles) =>
                    w.genre_weight <= genre_weight /\ w.watch_weight >= watch_weight

\* A call with three watched titles, under the deepest tier.
C4_Witness ==
    /\ pc = "returned"
    /\ Len(watched_titles) = 3
    /\ genre_weight = 3
    /\ watch_weight = 40

-----------------------------------------------------------------------------
(* C5 *)

\* C5: without preferences, a watched list of unknown titles only gives the
\* same rows in the same order as the empty watched list, for every top_n.
C5_UnknownTitles ==
    (/\ Called
     /\ preferred_genres = <<>>
     /\ \A i \in DOMAIN watched_titles : Unknown(watched_titles[i]))
    => recs = recommend_for_user(<<>>, <<>>, top_n).recs

\* A call with two or more unknown titles and nothing else, that returned rows.
C5_Witness ==
    /\ pc = "returned"
    /\ preferred_genres = <<>>
    /\ Len(watched_titles) >= 2
    /\ \A i \in DOMAIN watched_titles : Unknown(watched_titles[i])
    /\ Len(recs) >= 2

-----------------------------------------------------------------------------
(* C6 *)

-----------------------------------------------------------------------------
(* C7 *)

\* C7: without preferences and with one watched title that resolves to the one
\* position a, every other row p scores 3.5 * sim(a, p), row a is not
\* returned, and the returned rows are in non-increasing order of sim(a, p).
C7_OneWatched ==
    (/\ Called
     /\ preferred_genres = <<>>
     /\ Len(watched_titles) = 1
     /\ Cardinality(indices[watched_titles[1]]) = 1)
    => LET a == CHOOSE a \in indices[watched_titles[1]] : TRUE
       IN  /\ \A p \in DOMAIN df \ {a} : scores[p] = 35 * cosine_sim[a][p] * MeanDen
           /\ \A k \in DOMAIN recs : recs[k] # a
           /\ \A i, j \in DOMAIN recs :
                i < j => cosine_sim[a][recs[i]] >= cosine_sim[a][recs[j]]

\* Such a call that returned rows of three different similarities to a.
C7_Witness ==
    /\ pc = "returned"
    /\ preferred_genres = <<>>
    /\ Len(watched_titles) = 1
    /\ Cardinality(indices[watched_titles[1]]) = 1
    /\ LET a == CHOOSE a \in indices[watched_titles[1]] : TRUE
       IN  Cardinality({cosine_sim[a][recs[k]] : k \in DOMAIN recs}) >= 3

-----------------------------------------------------------------------------
(* C9 *)

\* C9: after the reason loop, the reason stored for a returned record is None
\* exactly when its watched_reasons and its genre_matches are both empty.
C9_ReasonNoneIffEmpty ==
    (pc = "explained" /\ ~raised) =>
        \A k \in DOMAIN recs :
            (reason_map[TitleOf(recs[k])] = None)
            <=> (/\ WatchedReasons(recs[k], watched_titles) = <<>>
                 /\ GenreMatches(recs[k], preferred_genres) = <<>>)

-----------------------------------------------------------------------------
(* C10 *)

\* C10 as stated: in the ranking, rows of equal score stand in catalog order,
\* the lower position first; with no preference and no history the call
\* returns the first top_n rows of the catalog, in catalog order.
C10_TiesCatalogOrder ==
    Called =>
        /\ LET r == Ranked(scores)
           IN  \A i, j \in DOMAIN r :
                (i < j /\ scores[r[i]] = scores[r[j]]) => r[i] < r[j]
        /\ (preferred_genres = <<>> /\ watched_titles = <<>> /\ top_n >= 0 /\ NoRepeatedRows)
            => recs = [k \in 1..Min(top_n, NRows) |-> k]

\* C10 amended: rows of equal score stand in the reverse of the order
\* np.argsort leaves them in; where argsort leaves equal scores in catalog
\* order, the higher position comes first, and with no preference and no
\* history the call returns the last top_n rows of the catalog, last row first.
C10_TiesReverseArgsort ==
    Called =>
        /\ LET r == Ranked(scores)
           IN  \A i, j \in DOMAIN r :
                (i < j /\ scores[r[i]] = scores[r[j]])
                => /\ argsortTie[r[i]] > argsortTie[r[j]]
                   /\ StableArgsort => r[i] > r[j]
        /\ (/\ StableArgsort
            /\ preferred_genres = <<>> /\ watched_titles = <<>> /\ top_n >= 0
            /\ NoRepeatedRows)
            => recs = [k \in 1..Min(top_n, NRows) |-> NRows + 1 - k]

\* A call with no preference and no history under a stable argsort, cut to
\* three rows: every score is zero.
C10_Witness ==
    /\ pc = "returned"
    /\ StableArgsort
    /\ preferred_genres = <<>>
    /\ watched_titles = <<>>
    /\ NoRepeatedRows
    /\ top_n = 3
    /\ recs = <<NRows, NRows - 1, NRows - 2>>

-----------------------------------------------------------------------------
(* C8 *)

-----------------------------------------------------------------------------
(* C11 *)

\* C11: no two returned records carry the same title, in every catalog, also
\* where several rows share a title and differ in another column.
C11_DedupByTitle ==
    Called =>
        \A i, j \in DOMAIN recs : i # j => TitleOf(recs[i]) # TitleOf(recs[j])

-----------------------------------------------------------------------------
(* C12 *)

TitlesOf(rs) == [k \in DOMAIN rs |-> TitleOf(rs[k])]

Front(s) == SubSeq(s, 1, Len(s) - 1)

\* C12: a call whose watched_titles ends with a title that is in neither the
\* index nor the catalog returns the same titles in the same order as the call
\* without that title, for every preference list, history and top_n.
C12_UnknownAppended ==
    (/\ Called
     /\ watched_titles # <<>>
     /\ Unknown(watched_titles[Len(watched_titles)]))
    => TitlesOf(recs)
        = TitlesOf(recommend_for_user(preferred_genres, Front(watched_titles), top_n).recs)

-----------------------------------------------------------------------------
(* C13 *)

\* The first n rows; none for n <= 0.
Take(seq, n) == SubSeq(seq, 1, Max(0, Min(n, Len(seq))))

\* The ranking of the call, less the rows whose title is watched.
NonWatchedRanked ==
    SelectSeq(Ranked(scores), LAMBDA p : TitleOf(p) \notin Range(watched_titles))

\* The up-to-3 highest-ranked rows that are not watched and match a preference.
Prepended == Take(SelectSeq(NonWatchedRanked, Matches), HeadSignup)

Remaining == SelectSeq(NonWatchedRanked, LAMBDA p : p \notin Range(Prepended))

NonIncreasingAfterPrepended ==
    \A i, j \in DOMAIN recs :
        (i < j /\ recs[i] \notin Range(Prepended) /\ recs[j] \notin Range(Prepended))
        => scores[recs[i]] >= scores[recs[j]]

\* C13 as stated: the result is the up-to-3 highest-ranked non-watched
\* matching rows, then all remaining non-watched rows in non-increasing score
\* order, cut to the first top_n rows.
C13_Assembly ==
    Called =>
        /\ recs = Take(Prepended \o Remaining, top_n)
        /\ NonIncreasingAfterPrepended

\* C13 amended: the same for top_n >= 0 in a catalog no two rows of which are
\* equal in every column.
C13_AssemblyDistinctRows ==
    (Called /\ NoRepeatedRows /\ top_n >= 0) =>
        /\ recs = Take(Prepended \o Remaining, top_n)
        /\ NonIncreasingAfterPrepended

\* Three rows put in front that are not the three highest-ranked rows, before
\* a row that scores higher than one of them, in a call with a resolved
\* watched title.
C13_Witness ==
    /\ pc = "returned"
    /\ NoRepeatedRows
    /\ top_n = DefaultTopN
    /\ WatchedIdx(watched_titles) # {}
    /\ Len(Prepended) = HeadSignup
    /\ Prepended # Take(NonWatchedRanked, HeadSignup)
    /\ Len(recs) > HeadSignup
    /\ \E k \in 1..HeadSignup : scores[recs[HeadSignup + 1]] > scores[recs[k]]

-----------------------------------------------------------------------------
(* C15 *)

\* C15: the reason loop completes without an exception for every returned
\* row, also when a watched title maps to several positions of the index.
C15_ReasonsNeverFail ==
    pc = "explained" => ~raised

-----------------------------------------------------------------------------
(* C14 *)

\* The items of the part of a row's reasons that is of the given kind.
PartItems(r, kind) ==
    IF r = None THEN <<>>
    ELSE LET ps == SelectSeq(r.parts, LAMBDA x : x.kind = kind)
         IN  IF ps = <<>> THEN <<>> ELSE ps[1].items

\* The one position a title resolves to.
PositionOf(w) == CHOOSE a \in indices[w] : TRUE

\* C14: where every watched title resolves to at most one position, the loop
\* shows for the returned row at position p the first at most 3, in the order
\* of watched_titles, of the watched titles that are in the index and more
\* than 0.1 similar to p, and the first at most 3, in the order of
\* preferred_genres, of the preferred genres that occur in the row's label as
\* a substring, letter case ignored.
C14_ShownReasons ==
    (/\ pc = "explained"
     /\ \A i \in DOMAIN watched_titles : Cardinality(indices[watched_titles[i]]) <= 1)
    => /\ ~raised
       /\ Len(row_reasons) = Len(recs)
       /\ \A k \in DOMAIN recs :
            /\ PartItems(row_reasons[k], "watched")
                = Take(SelectSeq(watched_titles,
                            LAMBDA w : /\ indices[w] # {}
                                       /\ cosine_sim[PositionOf(w)][recs[k]] > ReasonThreshold),
                       MaxReasons)
            /\ PartItems(row_reasons[k], "genres")
                = Take(SelectSeq(preferred_genres,
                            LAMBDA g : Contains(df[recs[k]].Genre, g)),
                       MaxReasons)

\* A returned row to which four watched titles are more than 0.1 similar and
\* whose label holds four preferred genres: three of each are shown.
C14_Witness ==
    /\ pc = "explained"
    /\ ~raised
    /\ \E k \in DOMAIN recs :
        /\ Len(WatchedReasons(recs[k], watched_titles)) > MaxReasons
        /\ Len(SelectSeq(preferred_genres, LAMBDA g : Contains(df[recs[k]].Genre, g)))
            > MaxReasons
        /\ Len(PartItems(row_reasons[k], "watched")) = MaxReasons
        /\ Len(PartItems(row_reasons[k], "genres")) = MaxReasons

-----------------------------------------------------------------------------
(* C16 *)

\* C16: in the recommend_for_user of src/app.py and in that of
\* src/dashboard.py, after the exclusion every row resolved from a watched
\* title scores strictly lower than every other row.
C16_SentinelLowest ==
    pc = "returned_dashboard" =>
        LET app == FinalScores(preferred_genres, watched_titles)
            resolved == WatchedIdx(watched_titles)
        IN  \A p \in resolved, q \in (DOMAIN df) \ resolved :
                /\ app[p] < app[q]
                /\ scores[p] < scores[q]

-----------------------------------------------------------------------------
(* C18 *)

\* The index maps a title only to rows that carry it.
ConsistentIndex ==
    \A t \in DOMAIN indices : \A p \in indices[t] : TitleOf(p) = t

\* C18: over a catalog without missing genre label and an index that maps
\* each title only to rows carrying it, the recommend_for_user of
\* src/dashboard.py returns the same titles in the same order as that of
\* src/app.py, for every preference list (the empty one too), history and
\* top_n.
C18_SameTitles ==
    (pc = "returned_dashboard" /\ ConsistentIndex) =>
        TitlesOf(recs)
        = TitlesOf(recommend_for_user(preferred_genres, watched_titles, top_n).recs)

\* A call without preferences in which a row that is not watched scores below
\* the sentinel -1 of src/dashboard.py, so that the two rankings differ.
C18_Witness ==
    /\ pc = "returned_dashboard"
    /\ ConsistentIndex
    /\ preferred_genres = <<>>
    /\ WatchedIdx(watched_titles) # {}
    /\ Len(recs) >= 2
    /\ \E k \in DOMAIN recs : scores[recs[k]] < SentinelDashboard
    /\ Ranked(scores) # Ranked(FinalScores(preferred_genres, watched_titles))

-----------------------------------------------------------------------------
(* C17 *)

\* C17: format_reason renders, of the text composed from watched_reasons and
\* genre_matches, exactly the titles composed (the first 3 of
\* watched_reasons) as the watched bullets and exactly genre_matches as the
\* genre bullets, also for titles that hold a comma or " and ".
C17_RoundTrip ==
    pc = "formatted" =>
        /\ bullets.watched_movies = Take(watched_reasons, MaxReasons)
        /\ bullets.genres = genre_matches

-----------------------------------------------------------------------------
(* C19 *)

\* What a call leaves in the file when nothing interferes.
Applied(call) ==
    CASE call.op = "signup_user" -> call.username \in DOMAIN user_data_file
      [] call.op = "update_user_genres" ->
            call.username \in DOMAIN user_data_file
            => user_data_file[call.username].genres = call.arg
      [] call.op = "update_watched" ->
            call.username \in DOMAIN user_data_file
            => user_data_file[call.username].watched = call.arg

\* C19: when two sessions have each finished a call of signup_user,
\* update_user_genres or update_watched for different usernames, the file
\* holds the update of both, however their loads and saves interleaved.
C19_NoLostUpdate ==
    (pc = "store" /\ \A s \in DOMAIN sessions : sessions[s].pc = "done")
    => \A s \in DOMAIN sessions : Applied(sessions[s].call)

-----------------------------------------------------------------------------
(* C20 *)

\* C20: every title a user clicked 'Watch Now' on is in the stored watched
\* list of that user ever after, and the Recommendations tab rendered for a
\* user holds no title that user clicked, in the same session or after logout
\* and login.
C20_WatchedStays ==
    pc = "ui" =>
        /\ \A i \in DOMAIN clicked :
            /\ clicked[i][1] \in DOMAIN user_data_file
            /\ clicked[i][2] \in Range(user_data_file[clicked[i][1]].watched)
        /\ st.page = "dashboard" =>
            \A k \in DOMAIN recs, i \in DOMAIN clicked :
                clicked[i][1] = st.username => TitleOf(recs[k]) # clicked[i][2]

\* The user of the first click on the dashboard again after another user
\* clicked, hence after a logout and a login, with recommendations rendered.
C20_Witness ==
    /\ pc = "ui"
    /\ st.page = "dashboard"
    /\ Len(clicked) >= 2
    /\ clicked[1][1] = st.username
    /\ clicked[Len(clicked)][1] # st.username
    /\ ~raised
    /\ recs # <<>>

====
